---------------------------- MODULE Spec2Model ----------------------------
(***************************************************************************)
(* The three optimisation scripts of the repository: afetacao.py (4x4      *)
(* binary assignment), transporte.py (transportation LP) and metas.py      *)
(* (goal programming), each followed by its sensitivity sweep.             *)
(*                                                                         *)
(* Real numbers are exact fixed-point rationals: the integer n * Scale     *)
(* stands for n.  LpProblem.solve() is the external solver: it is modelled *)
(* by its contract, a nondeterministic choice among the optimal points of  *)
(* the model's feasible set (status Optimal), or status Infeasible when    *)
(* the feasible set is empty.  Continuous variables range over a finite    *)
(* lattice of quantities that holds the vertices the optima lie on.        *)
(*                                                                         *)
(* Each script's module globals are one record (afet, transp, metas); the  *)
(* field solves of each record logs the calls of solve() in its sweep.     *)
(***************************************************************************)
EXTENDS Integers, Sequences, FiniteSets, TLC

VARIABLES script, afet, transp, metas

vars == <<script, afet, transp, metas>>

-----------------------------------------------------------------------------
(* Fixed-point arithmetic *)

\* halves of a euro (costs) and thirds of a box (quantities) are representable
Scale == 2 * 3

Fx(n) == n * Scale

Tenths(n) == (n * Scale) \div 10

One == Fx(1)

Mul(a, b) == (a * b) \div Scale

\* an unset value (a variable before solve, a name not yet bound)
None == <<>>

\* an absent bound of an LpVariable (lowBound or upBound None)
NoBound == 0 - 1

RECURSIVE Gcd(_, _)
Gcd(a, b) == IF b = 0 THEN a ELSE Gcd(b, a % b)

RECURSIVE lpSum(_)
lpSum(terms) ==
    IF Len(terms) = 0 THEN 0 ELSE Head(terms) + lpSum(Tail(terms))

MinOf(S) == CHOOSE v \in S : \A u \in S : v <= u

\* numpy.linspace(start, stop, num), as a sequence
linspace(start, stop, num) ==
    [n \in 1..num |-> start + ((n - 1) * (stop - start)) \div (num - 1)]

\* insertion into a dict
Put(d, key, val) ==
    [t \in (DOMAIN d) \cup {key} |-> IF t = key THEN val ELSE d[t]]

\* LpVariable(name, lowBound, upBound, cat): a Binary variable is an Integer
\* variable with bounds 0 and 1, whatever bounds were passed
LpVariable(lowBound, upBound, cat) ==
    IF cat = "Binary"
    THEN [lowBound |-> 0, upBound |-> One, cat |-> "Integer"]
    ELSE [lowBound |-> lowBound, upBound |-> upBound, cat |-> cat]

\* the points whose objective value is best, among pairs <<point, value>>
ArgBest(valued, best) == {e[1] : e \in {v \in valued : v[2] = best}}

\* the outcomes of solve() when the least objective value is best
Optima(valued, best) ==
    {[status |-> "Optimal", x |-> s, objective |-> best] : s \in ArgBest(valued, best)}

\* the outcomes of solve(), given the feasible points paired with their
\* objective values: any optimum, or Infeasible when there is no point
SolveOutcomes(valued) ==
    IF valued = {}
    THEN {[status |-> "Infeasible", x |-> None, objective |-> None]}
    ELSE Optima(valued, MinOf({v[2] : v \in valued}))

-----------------------------------------------------------------------------
(* afetacao.py *)

funcionarios == <<"F1", "F2", "F3", "F4">>

tarefas == <<"Lavagem", "Transporte", "Engarrafamento", "Controlo">>

Range(seq) == {seq[n] : n \in 1..Len(seq)}

AfetPairs == Range(funcionarios) \X Range(tarefas)

AfetCusto ==
    LET row(a, b, c, d) ==
            [j \in Range(tarefas) |->
                CASE j = "Lavagem" -> Fx(a) [] j = "Transporte" -> Fx(b)
                  [] j = "Engarrafamento" -> Fx(c) [] j = "Controlo" -> Fx(d)]
        tab == [i \in Range(funcionarios) |->
                CASE i = "F1" -> row(25, 40, 30, 35)
                  [] i = "F2" -> row(35, 30, 25, 45)
                  [] i = "F3" -> row(20, 35, 40, 30)
                  [] i = "F4" -> row(30, 25, 35, 20)]
    IN  [p \in AfetPairs |-> tab[p[1]][p[2]]]

\* the model built by lines 18-33 (and 89-95): variables, objective, constraints
AfetModel(name, custo, lowBound, upBound) ==
    [name     |-> name,
     variable |-> LpVariable(lowBound, upBound, "Binary"),
     custo    |-> custo,
     func_rhs |-> One,
     tarefa_rhs |-> One]

\* sum_j x[i,j] == 1
Res_func(m, x, i) ==
    lpSum([n \in 1..Len(tarefas) |-> x[<<i, tarefas[n]>>]]) = m.func_rhs

\* the task constraints left out
Res_tarefaNone(m, x, j) == TRUE

\* sum_i x[i,j] == 1
Res_tarefa(m, x, j) ==
    lpSum([n \in 1..Len(funcionarios) |-> x[<<funcionarios[n], j>>]]) = m.tarefa_rhs

\* the values one worker's row of variables can take under its own constraint
AfetRows(m, i) ==
    LET dom == {v \in {0, One} : m.variable.lowBound <= v /\ v <= m.variable.upBound}
    IN  {r \in [Range(tarefas) -> dom] :
            Res_func(m, [p \in AfetPairs |-> r[p[2]]], i)}

AfetFeasible(m) ==
    LET cand == {[p \in AfetPairs |-> rows[p[1]][p[2]]] :
                    rows \in [Range(funcionarios) -> UNION {AfetRows(m, i) : i \in Range(funcionarios)}]}
    IN  {x \in cand :
            /\ \A i \in Range(funcionarios) : Res_func(m, x, i)
            /\ \A j \in Range(tarefas) : Res_tarefa(m, x, j)}

\* value(model.objective)
CustoTotal(custo, x) ==
    lpSum([n \in 1..(Len(funcionarios) * Len(tarefas)) |->
            LET i == funcionarios[((n - 1) \div Len(tarefas)) + 1]
                j == tarefas[((n - 1) % Len(tarefas)) + 1]
            IN  Mul(custo[<<i, j>>], x[<<i, j>>])])

AfetSolveOutcomes(m) ==
    SolveOutcomes({<<x, CustoTotal(m.custo, x)>> : x \in AfetFeasible(m)})

cvals == linspace(Fx(20), Fx(50), 7)

AfetSweptKey == <<"F4", "Controlo">>

AfetInit ==
    afet = [pc |-> "solve",
            custo_inicial |-> AfetCusto,
            model |-> None, x |-> None, status |-> "Not Solved",
            alocacao |-> <<>>, pos |-> 0,
            k |-> 0, custo_mod |-> None, m_sens |-> None, x_sens |-> None,
            ctotais |-> <<>>, solves |-> <<>>]

\* lines 18-35
AfetSolve ==
    /\ script = "afetacao" /\ afet.pc = "solve"
    /\ LET m == AfetModel("Afetacao", afet.custo_inicial, 0, One)
       IN  \E r \in AfetSolveOutcomes(m) :
             afet' = [afet EXCEPT !.model = m, !.x = r.x, !.status = r.status,
                                  !.pc = "extract", !.pos = 1]
    /\ UNCHANGED <<script, transp, metas>>

\* the allocation keyed by the worker instead of the task
AfetExtractByWorker ==
    /\ script = "afetacao" /\ afet.pc = "extract"
    /\ LET n == afet.pos
           i == funcionarios[((n - 1) \div Len(tarefas)) + 1]
           j == tarefas[((n - 1) % Len(tarefas)) + 1]
           last == n = Len(funcionarios) * Len(tarefas)
       IN  afet' = [afet EXCEPT
                      !.alocacao = IF afet.x[<<i, j>>] = One
                                   THEN Put(@, i, <<j, afet.custo_inicial[<<i, j>>]>>)
                                   ELSE @,
                      !.pos = IF last THEN @ ELSE n + 1,
                      !.pc = IF last THEN "sweep" ELSE "extract",
                      !.k = IF last THEN 1 ELSE @]
    /\ UNCHANGED <<script, transp, metas>>

\* lines 42-47, one (i, j) of the double loop per step
AfetExtract ==
    /\ script = "afetacao" /\ afet.pc = "extract"
    /\ LET n == afet.pos
           i == funcionarios[((n - 1) \div Len(tarefas)) + 1]
           j == tarefas[((n - 1) % Len(tarefas)) + 1]
           last == n = Len(funcionarios) * Len(tarefas)
       IN  afet' = [afet EXCEPT
                      !.alocacao = IF afet.x[<<i, j>>] = One
                                   THEN Put(@, j, <<i, afet.custo_inicial[<<i, j>>]>>)
                                   ELSE @,
                      !.pos = IF last THEN @ ELSE n + 1,
                      !.pc = IF last THEN "sweep" ELSE "extract",
                      !.k = IF last THEN 1 ELSE @]
    /\ UNCHANGED <<script, transp, metas>>

\* line 83 (loop test) and line 85
AfetCopy ==
    /\ script = "afetacao" /\ afet.pc = "sweep"
    /\ IF afet.k <= Len(cvals)
       THEN afet' = [afet EXCEPT !.custo_mod = afet.custo_inicial, !.pc = "perturb"]
       ELSE afet' = [afet EXCEPT !.pc = "done"]
    /\ UNCHANGED <<script, transp, metas>>

\* custo_mod bound to the base table itself instead of a copy of it
AfetPerturbAliased ==
    /\ script = "afetacao" /\ afet.pc = "perturb"
    /\ afet' = [afet EXCEPT !.custo_mod = Put(@, AfetSweptKey, cvals[afet.k]),
                            !.custo_inicial = Put(@, AfetSweptKey, cvals[afet.k]),
                            !.pc = "build"]
    /\ UNCHANGED <<script, transp, metas>>

\* line 86
AfetPerturb ==
    /\ script = "afetacao" /\ afet.pc = "perturb"
    /\ afet' = [afet EXCEPT !.custo_mod = Put(@, AfetSweptKey, cvals[afet.k]),
                            !.pc = "build"]
    /\ UNCHANGED <<script, transp, metas>>

\* lines 89-95: fresh problem and fresh variables
AfetBuild ==
    /\ script = "afetacao" /\ afet.pc = "build"
    /\ afet' = [afet EXCEPT !.m_sens = AfetModel("Afetacao_Sens", afet.custo_mod, NoBound, NoBound),
                            !.x_sens = None, !.pc = "sens_solve"]
    /\ UNCHANGED <<script, transp, metas>>

\* line 96
AfetSensSolve ==
    /\ script = "afetacao" /\ afet.pc = "sens_solve"
    /\ \E r \in AfetSolveOutcomes(afet.m_sens) :
         afet' = [afet EXCEPT !.x_sens = r.x,
                              !.solves = Append(@, [model |-> afet.m_sens, status |-> r.status,
                                                  objective |-> r.objective]),
                              !.pc = "append"]
    /\ UNCHANGED <<script, transp, metas>>

\* the result inserted at the front of the list
AfetAppendFront ==
    /\ script = "afetacao" /\ afet.pc = "append"
    /\ afet' = [afet EXCEPT
                  !.ctotais = <<CustoTotal(afet.m_sens.custo, afet.x_sens)>> \o @,
                  !.k = @ + 1, !.pc = "sweep"]
    /\ UNCHANGED <<script, transp, metas>>

\* line 97
AfetAppend ==
    /\ script = "afetacao" /\ afet.pc = "append"
    /\ afet' = [afet EXCEPT
                  !.ctotais = Append(@, CustoTotal(afet.m_sens.custo, afet.x_sens)),
                  !.k = @ + 1, !.pc = "sweep"]
    /\ UNCHANGED <<script, transp, metas>>

-----------------------------------------------------------------------------
(* transporte.py *)

armazens == <<"A1", "A2">>

centros == <<"CD1", "CD2", "CD3">>

TPairs == Range(armazens) \X Range(centros)

TranspOferta == [i \in Range(armazens) |-> IF i = "A1" THEN Fx(300) ELSE Fx(500)]

TranspProcura == [j \in Range(centros) |-> IF j = "CD1" THEN Fx(200) ELSE Fx(250)]

TranspCusto ==
    [p \in TPairs |->
        CASE p = <<"A1", "CD1">> -> Tenths(20) [] p = <<"A1", "CD2">> -> Tenths(35)
          [] p = <<"A1", "CD3">> -> Tenths(30) [] p = <<"A2", "CD1">> -> Tenths(25)
          [] p = <<"A2", "CD2">> -> Tenths(20) [] p = <<"A2", "CD3">> -> Tenths(40)]

\* the model built by lines 19-34 (and 83-95)
TranspModel(name, custo, of, pr) ==
    [name     |-> name,
     variable |-> LpVariable(0, NoBound, "Continuous"),
     custo    |-> custo,
     oferta   |-> of,
     procura  |-> pr]

\* the supply constraints left out
OfertaDropped(m, x, i) == TRUE

\* the supply constraints written with >= instead of <=
OfertaAtLeast(m, x, i) ==
    lpSum([n \in 1..Len(centros) |-> x[<<i, centros[n]>>]]) >= m.oferta[i]

\* sum_j x[i,j] <= oferta[i]
Oferta(m, x, i) ==
    lpSum([n \in 1..Len(centros) |-> x[<<i, centros[n]>>]]) <= m.oferta[i]

\* sum_i x[i,j] == procura[j]
Procura(m, x, j) ==
    lpSum([n \in 1..Len(armazens) |-> x[<<armazens[n], j>>]]) = m.procura[j]

\* The lattice of quantities: the multiples of the greatest common divisor of
\* the supplies and demands (every vertex of a transportation polytope is on it).
QtyStep(m) ==
    LET g == Gcd(Gcd(m.oferta["A1"], m.oferta["A2"]),
                 Gcd(m.procura["CD1"], Gcd(m.procura["CD2"], m.procura["CD3"])))
    IN  IF g = 0 THEN Scale ELSE g

\* the values the variables of one centre can take under its own constraint
PerCentre(m, j, step) ==
    LET grid == {n * step : n \in 0..(m.procura[j] \div step)}
        dom  == {v \in grid : m.variable.lowBound <= v}
    IN  {c \in [Range(armazens) -> dom] :
            Procura(m, [p \in TPairs |-> c[p[1]]], j)}

\* the variables x[(i, j)] of centre j, with the values c[i]
Column(j, c) ==
    (<<armazens[1], j>> :> c[armazens[1]]) @@ (<<armazens[2], j>> :> c[armazens[2]])

Shipments(m, step) ==
    {Column(centros[1], c1) @@ Column(centros[2], c2) @@ Column(centros[3], c3) :
        c1 \in PerCentre(m, centros[1], step),
        c2 \in PerCentre(m, centros[2], step),
        c3 \in PerCentre(m, centros[3], step)}

TranspFeasible(m) ==
    {x \in Shipments(m, QtyStep(m)) :
        /\ \A i \in Range(armazens) : Oferta(m, x, i)
        /\ \A j \in Range(centros) : Procura(m, x, j)}

\* value(model.objective)
Custo_Total(custo, x) ==
    lpSum([n \in 1..(Len(armazens) * Len(centros)) |->
            LET i == armazens[((n - 1) \div Len(centros)) + 1]
                j == centros[((n - 1) % Len(centros)) + 1]
            IN  Mul(custo[<<i, j>>], x[<<i, j>>])])

TranspSolveOutcomes(m) ==
    SolveOutcomes({<<x, Custo_Total(m.custo, x)>> : x \in TranspFeasible(m)})

custos_variados == linspace(Fx(3), Fx(8), 11)

TranspSweptKey == <<"A2", "CD3">>

TranspStart(of, pr) ==
    [pc |-> "solve",
     oferta |-> of, procura |-> pr, custo_inicial |-> TranspCusto,
     model |-> None, x |-> None, status |-> "Not Solved",
     solucao |-> <<>>, pos |-> 0,
     k |-> 0, custo_atual |-> None, m_sens |-> None, x_sens |-> None,
     custo_total_lista |-> <<>>, solves |-> <<>>]

TranspInit == transp = TranspStart(TranspOferta, TranspProcura)

\* lines 19-37
TranspSolve ==
    /\ script = "transporte" /\ transp.pc = "solve"
    /\ LET m == TranspModel("Transporte_Adega", transp.custo_inicial, transp.oferta, transp.procura)
       IN  \E r \in TranspSolveOutcomes(m) :
             transp' = [transp EXCEPT !.model = m, !.x = r.x, !.status = r.status,
                                      !.pc = "extract", !.pos = 1]
    /\ UNCHANGED <<script, afet, metas>>

\* lines 44-50, one (i, j) of the double loop per step; value() of an
\* unsolved variable is None and the comparison q > 0 raises
TranspExtract ==
    /\ script = "transporte" /\ transp.pc = "extract" /\ transp.x # None
    /\ LET n == transp.pos
           i == armazens[((n - 1) \div Len(centros)) + 1]
           j == centros[((n - 1) % Len(centros)) + 1]
           q == transp.x[<<i, j>>]
           custo_unit == transp.custo_inicial[<<i, j>>]
           last == n = Len(armazens) * Len(centros)
       IN  transp' = [transp EXCEPT
                        !.solucao = IF q > 0
                                    THEN Append(@, <<i, j, q, custo_unit, Mul(q, custo_unit)>>)
                                    ELSE @,
                        !.pos = IF last THEN @ ELSE n + 1,
                        !.pc = IF last THEN "sweep" ELSE "extract",
                        !.k = IF last THEN 1 ELSE @]
    /\ UNCHANGED <<script, afet, metas>>

\* line 81 (loop test) and lines 83-85: fresh problem and fresh variables
TranspNew ==
    /\ script = "transporte" /\ transp.pc = "sweep"
    /\ IF transp.k <= Len(custos_variados)
       THEN transp' = [transp EXCEPT !.m_sens = None, !.x_sens = None, !.pc = "copy"]
       ELSE transp' = [transp EXCEPT !.pc = "done"]
    /\ UNCHANGED <<script, afet, metas>>

\* line 88
TranspCopy ==
    /\ script = "transporte" /\ transp.pc = "copy"
    /\ transp' = [transp EXCEPT !.custo_atual = transp.custo_inicial, !.pc = "perturb"]
    /\ UNCHANGED <<script, afet, metas>>

\* the perturbation written to the key of A1->CD3
TranspPerturbWrongKey ==
    /\ script = "transporte" /\ transp.pc = "perturb"
    /\ transp' = [transp EXCEPT
                    !.custo_atual = Put(@, <<"A1", "CD3">>, custos_variados[transp.k]),
                    !.pc = "build"]
    /\ UNCHANGED <<script, afet, metas>>

\* line 89
TranspPerturb ==
    /\ script = "transporte" /\ transp.pc = "perturb"
    /\ transp' = [transp EXCEPT
                    !.custo_atual = Put(@, TranspSweptKey, custos_variados[transp.k]),
                    !.pc = "build"]
    /\ UNCHANGED <<script, afet, metas>>

\* lines 91-95
TranspBuild ==
    /\ script = "transporte" /\ transp.pc = "build"
    /\ transp' = [transp EXCEPT
                    !.m_sens = TranspModel("Transporte_Sens", transp.custo_atual, transp.oferta, transp.procura),
                    !.pc = "sens_solve"]
    /\ UNCHANGED <<script, afet, metas>>

\* line 97
TranspSensSolve ==
    /\ script = "transporte" /\ transp.pc = "sens_solve"
    /\ \E r \in TranspSolveOutcomes(transp.m_sens) :
         transp' = [transp EXCEPT !.x_sens = r.x,
                                  !.solves = Append(@, [model |-> transp.m_sens, status |-> r.status,
                                                  objective |-> r.objective]),
                                  !.pc = "append"]
    /\ UNCHANGED <<script, afet, metas>>

\* the total recomputed with the base cost table instead of the model's
TranspAppendBaseCost ==
    /\ script = "transporte" /\ transp.pc = "append"
    /\ transp' = [transp EXCEPT
                    !.custo_total_lista =
                        Append(@, Custo_Total(transp.custo_inicial, transp.x_sens)),
                    !.k = @ + 1, !.pc = "sweep"]
    /\ UNCHANGED <<script, afet, metas>>

\* line 98
TranspAppend ==
    /\ script = "transporte" /\ transp.pc = "append"
    /\ transp' = [transp EXCEPT
                    !.custo_total_lista =
                        Append(@, Custo_Total(transp.m_sens.custo, transp.x_sens)),
                    !.k = @ + 1, !.pc = "sweep"]
    /\ UNCHANGED <<script, afet, metas>>

-----------------------------------------------------------------------------
(* metas.py *)

MetasOferta == [i \in Range(armazens) |-> Fx(700)]

MetasProcura == [j \in Range(centros) |-> IF j = "CD1" THEN Fx(200) ELSE Fx(250)]

MetasCusto ==
    [p \in TPairs |->
        CASE p = <<"A1", "CD1">> -> Tenths(20) [] p = <<"A1", "CD2">> -> Tenths(30)
          [] p = <<"A1", "CD3">> -> Tenths(25) [] p = <<"A2", "CD1">> -> Tenths(50)
          [] p = <<"A2", "CD2">> -> Tenths(55) [] p = <<"A2", "CD3">> -> Tenths(60)]

\* the model built by lines 26-56 (and 95-114)
MetasModel(name, custo, of, pr, w1, w2) ==
    [name       |-> name,
     variable   |-> LpVariable(0, NoBound, "Continuous"),
     custo      |-> custo,
     oferta     |-> of,
     procura    |-> pr,
     meta_custo |-> Fx(2500),
     meta_A2    |-> Fx(400),
     w1         |-> w1,
     w2         |-> w2]

\* cost_expr
cost_expr(custo, x) == Custo_Total(custo, x)

\* lpSum(x[("A2", j)] for j in centros)
ExpA2(x) == lpSum([n \in 1..Len(centros) |-> x[<<"A2", centros[n]>>]])

\* cost_expr + d1_minus - d1_plus == 2500
MetaCusto(m, s) ==
    cost_expr(m.custo, s.x) + s.d1_minus - s.d1_plus = m.meta_custo

\* sum_j x[A2,j] + d2_minus - d2_plus == 400
MetaA2(m, s) ==
    ExpA2(s.x) + s.d2_minus - s.d2_plus = m.meta_A2

\* w1 applied to d1_minus instead of d1_plus
ObjMetasMinus(m, s) ==
    Mul(m.w1, s.d1_minus) + Mul(m.w2, s.d2_minus + s.d2_plus)

\* w1*d1_plus + w2*(d2_minus + d2_plus)
ObjMetas(m, s) ==
    Mul(m.w1, s.d1_plus) + Mul(m.w2, s.d2_minus + s.d2_plus)

\* The lattice of quantities is refined by the marginal cost (in euros per
\* box) of moving CD1 from A1 to A2, so that it holds the point where the
\* cost goal becomes binding.
MetasStep(m) ==
    QtyStep(m) \div ((m.custo[<<"A2", "CD1">>] - m.custo[<<"A1", "CD1">>]) \div Scale)

\* the largest amount by which both deviations of a goal exceed what its
\* equation forces, in units
MaxShift == 1

\* The deviation variables of a goal  achieved + minus - plus == target  take
\* the least values >= lowBound that satisfy it, both raised by t units.
DevMinus(m, target, achieved, t) ==
    m.variable.lowBound + (IF target > achieved THEN target - achieved ELSE 0) + Fx(t)

DevPlus(m, target, achieved, t) ==
    m.variable.lowBound + (IF target < achieved THEN achieved - target ELSE 0) + Fx(t)

\* a point of the model: the shipments x and the four deviation variables
MetasPoint(m, x, custo_total, expA2, t1, t2) ==
    [x        |-> x,
     d1_minus |-> DevMinus(m, m.meta_custo, custo_total, t1),
     d1_plus  |-> DevPlus(m, m.meta_custo, custo_total, t1),
     d2_minus |-> DevMinus(m, m.meta_A2, expA2, t2),
     d2_plus  |-> DevPlus(m, m.meta_A2, expA2, t2)]

MetasCandidates(m) ==
    {MetasPoint(m, x, cost_expr(m.custo, x), ExpA2(x), t1, t2) :
        x \in Shipments(m, MetasStep(m)), t1 \in 0..MaxShift, t2 \in 0..MaxShift}

MetasFeasible(m) ==
    {s \in MetasCandidates(m) :
        /\ MetaCusto(m, s)
        /\ MetaA2(m, s)
        /\ \A i \in Range(armazens) : Oferta(m, s.x, i)
        /\ \A j \in Range(centros) : Procura(m, s.x, j)}

w2_values == linspace(Fx(0), Fx(5), 6)

\* The models the script builds from its data.  solve() is a function of the
\* model, and the feasible set a function of the model less its name and
\* weights: both are tabulated once for these models.
MetasBuilt ==
    {MetasModel("ProgMetas", MetasCusto, MetasOferta, MetasProcura, Fx(1), Fx(1))} \cup
    {MetasModel("ProgMetas_sens", MetasCusto, MetasOferta, MetasProcura, Fx(1), w2_values[n]) :
        n \in 1..Len(w2_values)}

MetasConstraints(m) == [m EXCEPT !.name = "", !.w1 = 0, !.w2 = 0]

MetasFeasibleTable ==
    {<<c, MetasFeasible(c)>> : c \in {MetasConstraints(m) : m \in MetasBuilt}}

MetasFeasibleOf(m) ==
    IF m \in MetasBuilt
    THEN (CHOOSE e \in MetasFeasibleTable : e[1] = MetasConstraints(m))[2]
    ELSE MetasFeasible(m)

MetasSolveOutcomes(m) ==
    SolveOutcomes({<<s, ObjMetas(m, s)>> : s \in MetasFeasibleOf(m)})

MetasTable == {<<m, MetasSolveOutcomes(m)>> : m \in MetasBuilt}

MetasSolved(m) ==
    IF m \in MetasBuilt
    THEN (CHOOSE e \in MetasTable : e[1] = m)[2]
    ELSE MetasSolveOutcomes(m)

MetasInit ==
    metas = [pc |-> "solve",
             oferta |-> MetasOferta, procura |-> MetasProcura, custo |-> MetasCusto,
             model |-> None, sol |-> None, status |-> "Not Solved",
             custo_total |-> 0, expA2 |-> 0,
             k |-> 0, m2 |-> None, sol2 |-> None,
             expA2_list |-> <<>>, solves |-> <<>>]

\* lines 26-58, w1 = w2 = 1
MetasSolve ==
    /\ script = "metas" /\ metas.pc = "solve"
    /\ LET m == MetasModel("ProgMetas", metas.custo, metas.oferta, metas.procura, Fx(1), Fx(1))
       IN  \E r \in MetasSolved(m) :
             metas' = [metas EXCEPT !.model = m, !.sol = r.x, !.status = r.status,
                                    !.pc = "report"]
    /\ UNCHANGED <<script, afet, transp>>

\* lines 62-63; value() of an unsolved variable is None and the sum raises
MetasReport ==
    /\ script = "metas" /\ metas.pc = "report" /\ metas.sol # None
    /\ metas' = [metas EXCEPT !.custo_total = cost_expr(metas.custo, metas.sol.x),
                              !.expA2 = ExpA2(metas.sol.x),
                              !.k = 1, !.pc = "sweep"]
    /\ UNCHANGED <<script, afet, transp>>

\* line 94 (loop test) and lines 95-100: fresh problem and fresh variables
MetasNew ==
    /\ script = "metas" /\ metas.pc = "sweep"
    /\ IF metas.k <= Len(w2_values)
       THEN metas' = [metas EXCEPT !.m2 = None, !.sol2 = None, !.pc = "build"]
       ELSE metas' = [metas EXCEPT !.pc = "done"]
    /\ UNCHANGED <<script, afet, transp>>

\* the two weights exchanged: w2test on d1p, 1 on (d2m + d2p)
MetasBuildWeightsSwapped ==
    /\ script = "metas" /\ metas.pc = "build"
    /\ metas' = [metas EXCEPT
                   !.m2 = MetasModel("ProgMetas_sens", metas.custo, metas.oferta,
                                     metas.procura, w2_values[metas.k], Fx(1)),
                   !.pc = "sens_solve"]
    /\ UNCHANGED <<script, afet, transp>>

\* lines 102-114
MetasBuild ==
    /\ script = "metas" /\ metas.pc = "build"
    /\ metas' = [metas EXCEPT
                   !.m2 = MetasModel("ProgMetas_sens", metas.custo, metas.oferta,
                                     metas.procura, Fx(1), w2_values[metas.k]),
                   !.pc = "sens_solve"]
    /\ UNCHANGED <<script, afet, transp>>

\* line 115
MetasSensSolve ==
    /\ script = "metas" /\ metas.pc = "sens_solve"
    /\ \E r \in MetasSolved(metas.m2) :
         metas' = [metas EXCEPT !.sol2 = r.x,
                                !.solves = Append(@, [model |-> metas.m2, status |-> r.status,
                                                  objective |-> r.objective]),
                                !.pc = "append"]
    /\ UNCHANGED <<script, afet, transp>>

\* lines 117-118
MetasAppend ==
    /\ script = "metas" /\ metas.pc = "append"
    /\ metas' = [metas EXCEPT !.expA2_list = Append(@, ExpA2(metas.sol2.x)),
                              !.k = @ + 1, !.pc = "sweep"]
    /\ UNCHANGED <<script, afet, transp>>

-----------------------------------------------------------------------------

Init ==
    /\ script \in {"afetacao", "transporte", "metas"}
    /\ AfetInit
    /\ TranspInit
    /\ MetasInit

Next ==
    \/ AfetSolve
    \/ AfetExtract
    \/ AfetCopy
    \/ AfetPerturb
    \/ AfetBuild
    \/ AfetSensSolve
    \/ AfetAppend
    \/ TranspSolve
    \/ TranspExtract
    \/ TranspNew
    \/ TranspCopy
    \/ TranspPerturb
    \/ TranspBuild
    \/ TranspSensSolve
    \/ TranspAppend
    \/ MetasSolve
    \/ MetasReport
    \/ MetasNew
    \/ MetasBuild
    \/ MetasSensSolve
    \/ MetasAppend

Spec == Init /\ [][Next]_vars

-----------------------------------------------------------------------------
(* The transportation model of transporte.py built and solved for arbitrary *)
(* supplies and demands of 0..MaxUnits boxes.                               *)

MaxUnits == 2

ShapeInit ==
    /\ script = "transporte"
    /\ AfetInit
    /\ MetasInit
    /\ \E of \in [Range(armazens) -> {Fx(u) : u \in 0..MaxUnits}],
          pr \in [Range(centros) -> {Fx(u) : u \in 0..MaxUnits}] :
            transp = TranspStart(of, pr)

SpecShape == ShapeInit /\ [][TranspSolve]_vars

-----------------------------------------------------------------------------
(* Properties *)

Extracted(pc) == pc \in {"sweep", "perturb", "copy", "build", "sens_solve", "append", "done"}

InUse(pc) == pc \in {"sens_solve", "append"}

\* two problems with the same variables, constraints and objective
SameProblem(m1, m2) == [m1 EXCEPT !.name = ""] = [m2 EXCEPT !.name = ""]

NonDecreasing(list) == \A n \in 1..(Len(list) - 1) : list[n] <= list[n + 1]

\* C1: the minimum total cost of the 4x4 assignment model over all
\* assignments that satisfy its constraints is 100, and exactly one
\* assignment attains it.
AfetOptimumIs100AndUnique ==
    (script = "afetacao" /\ afet.pc # "solve") =>
        /\ afet.status = "Optimal"
        /\ CustoTotal(afet.custo_inicial, afet.x) = Fx(100)
        /\ \A y \in AfetFeasible(afet.model) :
              /\ CustoTotal(afet.custo_inicial, y) >= Fx(100)
              /\ CustoTotal(afet.custo_inicial, y) = Fx(100) => y = afet.x

AfetSolvedWitness ==
    /\ script = "afetacao" /\ afet.pc = "extract" /\ afet.pos = 1
    /\ afet.status = "Optimal"
    /\ Cardinality(AfetFeasible(afet.model)) = 24

\* the assignment F1->Lavagem, F2->Engarrafamento, F3->Transporte, F4->Controlo
ClaimedX ==
    [p \in AfetPairs |->
        IF p \in {<<"F1", "Lavagem">>, <<"F2", "Engarrafamento">>,
                  <<"F3", "Transporte">>, <<"F4", "Controlo">>}
        THEN One ELSE 0]

ClaimedAlocacao ==
    [j \in Range(tarefas) |->
        CASE j = "Lavagem" -> <<"F1", Fx(25)>>
          [] j = "Engarrafamento" -> <<"F2", Fx(25)>>
          [] j = "Transporte" -> <<"F3", Fx(35)>>
          [] j = "Controlo" -> <<"F4", Fx(20)>>]

OptimalAlocacao ==
    [j \in Range(tarefas) |->
        CASE j = "Lavagem" -> <<"F3", Fx(20)>>
          [] j = "Engarrafamento" -> <<"F1", Fx(30)>>
          [] j = "Transporte" -> <<"F2", Fx(30)>>
          [] j = "Controlo" -> <<"F4", Fx(20)>>]

\* C9 as stated: the assignment F1->Lavagem, F2->Engarrafamento,
\* F3->Transporte, F4->Controlo is the optimal assignment, of total cost 100.
ClaimedAssignmentIsOptimal ==
    (script = "afetacao" /\ Extracted(afet.pc)) =>
        /\ afet.alocacao = ClaimedAlocacao
        /\ CustoTotal(afet.custo_inicial, ClaimedX) = Fx(100)

\* C9 amended: the assignment F1->Lavagem, F2->Engarrafamento, F3->Transporte,
\* F4->Controlo satisfies the bijection but costs 105; the optimal assignment,
\* of total cost 100, is F1->Engarrafamento, F2->Transporte, F3->Lavagem,
\* F4->Controlo.
ClaimedAssignmentCosts105 ==
    (script = "afetacao" /\ Extracted(afet.pc)) =>
        /\ ClaimedX \in AfetFeasible(afet.model)
        /\ CustoTotal(afet.custo_inicial, ClaimedX) = Fx(105)
        /\ afet.alocacao = OptimalAlocacao
        /\ CustoTotal(afet.custo_inicial, afet.x) = Fx(100)

AfetExtractedWitness ==
    /\ script = "afetacao" /\ afet.pc = "sweep" /\ afet.k = 1
    /\ DOMAIN afet.alocacao = Range(tarefas)

SumRows(solucao) == lpSum([n \in 1..Len(solucao) |-> solucao[n][5]])

\* C2: every optimal solution of the transportation model ships at most
\* supply(Ai) out of each warehouse, exactly demand(CDj) into each centre, and
\* its objective value is the sum of quantity x unit cost over the rows of
\* solucao, which are the shipments with positive quantity.
TranspOptimumAudit ==
    (script = "transporte" /\ transp.pc # "solve") =>
        /\ transp.status = "Optimal"
        /\ \A i \in Range(armazens) :
              transp.x[<<i, "CD1">>] + transp.x[<<i, "CD2">>] + transp.x[<<i, "CD3">>]
                  <= transp.oferta[i]
        /\ \A j \in Range(centros) :
              transp.x[<<"A1", j>>] + transp.x[<<"A2", j>>] = transp.procura[j]
        /\ \A n \in 1..Len(transp.solucao) :
              /\ transp.solucao[n][3] > 0
              /\ transp.solucao[n][3] = transp.x[<<transp.solucao[n][1], transp.solucao[n][2]>>]
        /\ Extracted(transp.pc) =>
              /\ SumRows(transp.solucao) = Custo_Total(transp.custo_inicial, transp.x)
              /\ Len(transp.solucao) = Cardinality({p \in TPairs : transp.x[p] > 0})

TranspExtractedWitness ==
    /\ script = "transporte" /\ transp.pc = "sweep" /\ transp.k = 1
    /\ Len(transp.solucao) \in 1..(Cardinality(TPairs) - 1)
    /\ SumRows(transp.solucao) = Fx(1725)

\* the least transport cost the supply and demand constraints of metas.py allow
MetasMinCost ==
    MinOf({cost_expr(MetasCusto, s.x) :
            s \in MetasFeasibleOf(MetasModel("ProgMetas", MetasCusto, MetasOferta,
                                             MetasProcura, Fx(1), Fx(1)))})

\* C3: with w1 = w2 = 1 and the goal cost + d1_minus - d1_plus = 2500, every
\* optimal solution has d1_plus = 0, that is, a total transport cost <= 2500.
MetasCostGoalMet ==
    (script = "metas" /\ metas.pc # "solve") =>
        /\ metas.status = "Optimal"
        /\ metas.model.w1 = Fx(1) /\ metas.model.w2 = Fx(1)
        /\ metas.sol.d1_plus = 0
        /\ cost_expr(metas.custo, metas.sol.x) <= Fx(2500)

MetasSolvedWitness ==
    /\ script = "metas" /\ metas.pc = "report"
    /\ MetasMinCost < Fx(2500)
    /\ metas.sol.d1_plus = 0
    /\ metas.sol.d2_minus > 0

AfetExpected(n) ==
    AfetModel("Afetacao_Sens", Put(AfetCusto, AfetSweptKey, cvals[n]), NoBound, NoBound)

TranspExpected(n) ==
    TranspModel("Transporte_Sens", Put(TranspCusto, TranspSweptKey, custos_variados[n]),
                TranspOferta, TranspProcura)

MetasExpected(n) ==
    MetasModel("ProgMetas_sens", MetasCusto, MetasOferta, MetasProcura, Fx(1), w2_values[n])

\* the values the recorded metric of the n-th metas model can take
MetasMetricTable ==
    {<<n, {ExpA2(r.x.x) : r \in MetasSolved(MetasExpected(n))}>> : n \in 1..Len(w2_values)}

MetasMetrics(n) == (CHOOSE e \in MetasMetricTable : e[1] = n)[2]

\* one sweep: solve was invoked once for each value handled so far, in the
\* order of the values, and the k-th result is a metric of the k-th model
\* (expected[n] is the n-th model, metrics[n] the values its metric can take)
SweepInOrder(pc, values, solves, results, expected, metrics) ==
    /\ Len(solves) <= Len(values)
    /\ Len(results) <= Len(solves) /\ Len(solves) <= Len(results) + 1
    /\ Len(solves) = Len(results) + 1 <=> pc = "append"
    /\ pc = "done" => Len(solves) = Len(values) /\ Len(results) = Len(values)
    /\ \A n \in 1..Len(solves) : solves[n].model = expected[n]
    /\ \A n \in 1..Len(results) : results[n] \in metrics[n]

\* C5: in each of the three sweep loops solve is invoked exactly once per
\* perturbation value, in the order of the value list, and when the loop ends
\* the result list is as long as the value list, its k-th entry being the
\* metric of the model built from the k-th value.
SweepsSolveOncePerValueInOrder ==
    /\ script = "afetacao" =>
          SweepInOrder(afet.pc, cvals, afet.solves, afet.ctotais,
              [n \in 1..Len(cvals) |-> AfetExpected(n)],
              [n \in 1..Len(cvals) |->
                  {CustoTotal(AfetExpected(n).custo, r.x) :
                      r \in AfetSolveOutcomes(AfetExpected(n))}])
    /\ script = "transporte" =>
          SweepInOrder(transp.pc, custos_variados, transp.solves,
              transp.custo_total_lista,
              [n \in 1..Len(custos_variados) |-> TranspExpected(n)],
              [n \in 1..Len(custos_variados) |->
                  {Custo_Total(TranspExpected(n).custo, r.x) :
                      r \in TranspSolveOutcomes(TranspExpected(n))}])
    /\ script = "metas" =>
          SweepInOrder(metas.pc, w2_values, metas.solves, metas.expA2_list,
              [n \in 1..Len(w2_values) |-> MetasExpected(n)],
              [n \in 1..Len(w2_values) |-> MetasMetrics(n)])

AfetSweepDoneWitness ==
    /\ script = "afetacao" /\ afet.pc = "done"
    /\ Len(afet.solves) = 7 /\ Len(afet.ctotais) = 7
    /\ afet.ctotais[1] # afet.ctotais[7]

\* C6: throughout the sweeps of afetacao.py and transporte.py the base table
\* custo_inicial is never modified, the cost table of the model in use equals
\* custo_inicial at every key but the swept one, which holds the current
\* perturbation value, and supply, demand and the constraints are those of
\* the base model.
SweepsCarryNothingOver ==
    /\ afet.custo_inicial = AfetCusto
    /\ transp.custo_inicial = TranspCusto
    /\ (script = "afetacao" /\ InUse(afet.pc)) =>
          /\ \A p \in AfetPairs :
                afet.m_sens.custo[p] =
                    IF p = AfetSweptKey THEN cvals[afet.k] ELSE afet.custo_inicial[p]
          /\ [afet.m_sens EXCEPT !.custo = <<>>, !.name = ""]
                = [afet.model EXCEPT !.custo = <<>>, !.name = ""]
    /\ (script = "transporte" /\ InUse(transp.pc)) =>
          /\ \A p \in TPairs :
                transp.m_sens.custo[p] =
                    IF p = TranspSweptKey THEN custos_variados[transp.k]
                    ELSE transp.custo_inicial[p]
          /\ transp.m_sens.oferta = TranspOferta
          /\ transp.m_sens.procura = TranspProcura
          /\ [transp.m_sens EXCEPT !.custo = <<>>, !.name = ""]
                = [transp.model EXCEPT !.custo = <<>>, !.name = ""]

AfetSecondIterationWitness ==
    /\ script = "afetacao" /\ afet.pc = "sens_solve" /\ afet.k = 2
    /\ afet.m_sens.custo[AfetSweptKey] = Fx(25)
    /\ afet.custo_inicial[AfetSweptKey] = Fx(20)

\* C7: the sweep iteration whose perturbation value equals the base
\* coefficient builds the problem of the base model, its solve ends with the
\* status and the objective value of the base solve, and it records the
\* metric of the base solve.
BaseValueIterationRepeatsBase ==
    /\ script = "afetacao" =>
          \A n \in 1..Len(afet.ctotais) :
              cvals[n] = AfetCusto[AfetSweptKey] =>
                  /\ SameProblem(afet.solves[n].model, afet.model)
                  /\ afet.solves[n].status = afet.status
                  /\ afet.solves[n].objective = CustoTotal(afet.custo_inicial, afet.x)
                  /\ afet.ctotais[n] = CustoTotal(afet.custo_inicial, afet.x)
    /\ script = "transporte" =>
          \A n \in 1..Len(transp.custo_total_lista) :
              custos_variados[n] = TranspCusto[TranspSweptKey] =>
                  /\ SameProblem(transp.solves[n].model, transp.model)
                  /\ transp.solves[n].status = transp.status
                  /\ transp.solves[n].objective
                        = Custo_Total(transp.custo_inicial, transp.x)
                  /\ transp.custo_total_lista[n]
                        = Custo_Total(transp.custo_inicial, transp.x)
    /\ script = "metas" =>
          \A n \in 1..Len(metas.expA2_list) :
              w2_values[n] = metas.model.w2 =>
                  /\ SameProblem(metas.solves[n].model, metas.model)
                  /\ metas.solves[n].status = metas.status
                  /\ metas.solves[n].objective = ObjMetas(metas.model, metas.sol)
                  /\ metas.expA2_list[n] = metas.expA2

TranspBaseValueWitness ==
    /\ script = "transporte" /\ Len(transp.custo_total_lista) = 3
    /\ custos_variados[3] = TranspCusto[TranspSweptKey]
    /\ transp.custo_total_lista[3] = Fx(1725)
    /\ transp.custo_total_lista[1] # Fx(1725)

TotalOferta(of) == of["A1"] + of["A2"]

TotalProcura(pr) == pr["CD1"] + pr["CD2"] + pr["CD3"]

\* C8: for a transportation model of the shape of transporte.py, whenever
\* total demand strictly exceeds total supply the solve ends with status
\* Infeasible, never Optimal, and no variable gets a value.
ExcessDemandIsInfeasible ==
    (transp.pc # "solve" /\ TotalProcura(transp.procura) > TotalOferta(transp.oferta)) =>
        /\ transp.status = "Infeasible"
        /\ transp.x = None

ExcessDemandWitness ==
    /\ transp.pc # "solve"
    /\ TotalProcura(transp.procura) = TotalOferta(transp.oferta) + Fx(1)
    /\ transp.oferta["A1"] > 0 /\ transp.oferta["A2"] > 0
    /\ transp.status = "Infeasible"

\* C10: in the metas.py sweep over w2 the recorded A2 shipment total is
\* non-decreasing in w2 and never exceeds the goal of 400, whichever optimal
\* solution the solver returns at each point.
MetasSweepMonotoneBelowGoal ==
    script = "metas" =>
        /\ NonDecreasing(metas.expA2_list)
        /\ \A n \in 1..Len(metas.expA2_list) : metas.expA2_list[n] <= Fx(400)

\* both ties resolved short of their largest optimum: w2 = 0 and w2 = 3
MetasSweepTiesWitness ==
    /\ script = "metas" /\ metas.pc = "done"
    /\ Len(metas.expA2_list) = 6
    /\ metas.expA2_list[1] < metas.expA2_list[2]
    /\ metas.expA2_list[3] < metas.expA2_list[4]
    /\ metas.expA2_list[4] < metas.expA2_list[5]

=============================================================================
